---- MODULE Spec2Model ----
(***************************************************************************)
(* Model of the streaming HTTP/RTSP message readers of protocol-parser-lib *)
(* (src/protocol/protocol.py, src/protocolparser/http.py, rtsp.py).        *)
(*                                                                         *)
(* A reader object is the record p.  Every method of the classes is an     *)
(* operator from a reader record (and its arguments) to the reader record  *)
(* after the call; a value returned by a method is left in the field ret,  *)
(* a raised exception in the field exc.  The field log is the history of   *)
(* the run: every callback the reader made (the consumer's and its own     *)
(* line_received and raw_data_received), every hand-over of the buffer to  *)
(* raw mode ("refeed"), and every call the application made.               *)
(*                                                                         *)
(* A byte is a one-character string, except CR, LF and HT which are named. *)
(* bytes and str values are sequences of such characters.                  *)
(***************************************************************************)
EXTENDS Integers, Sequences, FiniteSets, TLC

VARIABLES p, stream, nfed, napi

vars == <<p, stream, nfed, napi>>

----------------------------------------------------------------------------
(* Bytes and the Python primitives the code uses on them.                  *)

CR == "CR"

LF == "LF"

HT == "HT"

SP == " "

None == <<"None">>

NoExc == ""

Whitespace == {SP, HT, CR, LF}

Digits == <<"0", "1", "2", "3", "4", "5", "6", "7", "8", "9">>

HexDigits == Digits \o <<"a", "b", "c", "d", "e", "f">>

UpperCase == <<"A", "B", "C", "D", "E", "F", "G", "H", "I", "J", "K", "L", "M", "N", "O", "P", "Q", "R", "S", "T", "U", "V", "W", "X", "Y", "Z">>

LowerCase == <<"a", "b", "c", "d", "e", "f", "g", "h", "i", "j", "k", "l", "m", "n", "o", "p", "q", "r", "s", "t", "u", "v", "w", "x", "y", "z">>

Ascii == Whitespace \cup {Digits[i] : i \in 1..10} \cup {UpperCase[i] : i \in 1..26} \cup {LowerCase[i] : i \in 1..26} \cup {"/", ".", ":", ";", "-", "+", "*", "_"}

Min(a, b) == IF a < b THEN a ELSE b

Max(a, b) == IF a > b THEN a ELSE b

SetMin(S) == CHOOSE x \in S : \A y \in S : x <= y

IndexIn(c, tbl) == IF \E i \in 1..Len(tbl) : tbl[i] = c THEN SetMin({i \in 1..Len(tbl) : tbl[i] = c}) ELSE 0

\* data[c:] with Python's treatment of a negative or too large index
PyFrom(data, c) == SubSeq(data, (IF c < 0 THEN Max(Len(data) + c, 0) ELSE Min(c, Len(data))) + 1, Len(data))

\* data[:c] with Python's treatment of a negative or too large index
PyTo(data, c) == SubSeq(data, 1, IF c < 0 THEN Max(Len(data) + c, 0) ELSE Min(c, Len(data)))

\* bytes.find(sub, start): the least 0-based index >= start where sub occurs, else -1
Find(buf, sub, start) == LET hits == {i \in Max(start, 0)..(Len(buf) - Len(sub)) : \A k \in 1..Len(sub) : buf[i + k] = sub[k]} IN IF hits = {} THEN -1 ELSE SetMin(hits)

LowerChar(c) == IF IndexIn(c, UpperCase) > 0 THEN LowerCase[IndexIn(c, UpperCase)] ELSE c

UpperChar(c) == IF IndexIn(c, LowerCase) > 0 THEN UpperCase[IndexIn(c, LowerCase)] ELSE c

\* bytes.lower()
Lower(b) == [i \in 1..Len(b) |-> LowerChar(b[i])]

\* str.upper()
Upper(b) == [i \in 1..Len(b) |-> UpperChar(b[i])]

\* bytes.strip(): leading and trailing ASCII whitespace removed
Strip(b) == LET keep == {i \in 1..Len(b) : b[i] \notin Whitespace} IN IF keep = {} THEN <<>> ELSE SubSeq(b, SetMin(keep), CHOOSE x \in keep : \A y \in keep : y <= x)

\* bytes.decode('utf-8', 'replace'): an ASCII byte is its character, any other byte is replaced
Decode(b) == [i \in 1..Len(b) |-> IF b[i] \in Ascii THEN b[i] ELSE "U+FFFD"]

RECURSIVE DigitsValue(_, _, _)
\* the value of the digit string ds in the given base, or -1 if a character is no digit of the base
DigitsValue(ds, base, acc) == IF ds = <<>> THEN acc ELSE LET d == IndexIn(LowerChar(Head(ds)), HexDigits) - 1 IN IF d < 0 \/ d >= base THEN -1 ELSE DigitsValue(Tail(ds), base, acc * base + d)

\* int(b) and int(b, 16) on bytes: surrounding whitespace, one optional sign, digits of the base; ValueError otherwise
PyInt(b, base) ==
  LET t == Strip(b)
      neg == t # <<>> /\ Head(t) = "-"
      signed == t # <<>> /\ Head(t) \in {"-", "+"}
      ds == IF signed THEN Tail(t) ELSE t
      v == IF ds = <<>> THEN -1 ELSE DigitsValue(ds, base, 0)
  IN [err |-> v < 0, v |-> IF v < 0 THEN 0 ELSE IF neg THEN 0 - v ELSE v]

----------------------------------------------------------------------------
(* The four reader classes.                                                *)

HttpRequest == "HttpRequestReader"

HttpResponse == "HttpResponseReader"

RtspRequest == "RtspRequestReader"

RtspResponse == "RtspResponseReader"

IsResponse(kind) == kind \in {HttpResponse, RtspResponse}

IsHttp(kind) == kind \in {HttpRequest, HttpResponse}

Delimiter == <<CR, LF>>

EmptyFields == [k \in {} |-> [name |-> <<>>, value |-> <<>>]]

\* The reader after __init__ (LineReader, HttpLikeMessageReader and the request or response class)
NewReader(kind, max_headers, max_line_length) ==
  [kind |-> kind,
   buffer |-> <<>>, buffer_limit |-> max_line_length, raw_mode |-> FALSE, processing |-> FALSE,
   process_line |-> "process_header_line", header_lines |-> 0, last_header_field |-> None,
   header_fields |-> EmptyFields, max_header_fields |-> max_headers,
   expected |-> 0, expected_none |-> FALSE,
   version |-> None, method |-> None, url |-> None, status_code |-> None, reason_phrase |-> None,
   request_queue |-> <<>>,
   log |-> <<>>, exc |-> NoExc, ret |-> 0, hung |-> FALSE]

\* One call of a callback, as the log records it
Event(cb, data, msg, n) == [cb |-> cb, data |-> data, msg |-> msg, n |-> n]

\* A call of a consumer callback (the default implementations return at once)
Emit(s, cb, data, msg) == [s EXCEPT !.log = Append(@, Event(cb, data, msg, 0))]

Raise(s, msg) == [s EXCEPT !.exc = msg]

header_received(s) == Emit(s, "header_received", <<>>, "")

body_data_received(s, data) == Emit(s, "body_data_received", data, "")

message_end_received(s) == Emit(s, "message_end_received", <<>>, "")

parse_error(s, msg) == Emit(s, "parse_error", <<>>, msg)

internal_error(s, msg) == Emit(s, "internal_error", <<>>, msg)

close_connection(s) == Emit(s, "close_connection", <<>>, "")

----------------------------------------------------------------------------
(* The start-line patterns (first_line_re) of the four classes.           *)

IsDigit(c) == IndexIn(c, Digits) > 0

\* the text "<proto>/" digit "." digit, which the patterns end or begin with
IsProtoVersion(t, proto) == Len(t) = Len(proto) + 4 /\ SubSeq(t, 1, Len(proto)) = proto /\ t[Len(proto) + 1] = "/" /\ IsDigit(t[Len(proto) + 2]) /\ t[Len(proto) + 3] = "." /\ IsDigit(t[Len(proto) + 4])

\* "$" also matches just before one final line feed
DropFinalLF(t) == IF t # <<>> /\ t[Len(t)] = LF THEN SubSeq(t, 1, Len(t) - 1) ELSE t

\* the 1-based index of the first whitespace character of t at or after from, or 0
NextSpace(t, from) == LET ws == {i \in from..Len(t) : t[i] \in Whitespace} IN IF ws = {} THEN 0 ELSE SetMin(ws)

\* ^(?P<method>\S+) (?P<url>\S*) <proto>/(?P<version>\d\.\d)$ on the text t without its final line feed
RequestLineParts(t, proto) ==
  LET i == NextSpace(t, 1)
      j == IF i = 0 THEN 0 ELSE NextSpace(t, i + 1)
      ok == i > 1 /\ t[i] = SP /\ j > 0 /\ t[j] = SP /\ IsProtoVersion(SubSeq(t, j + 1, Len(t)), proto)
  IN [matched |-> ok,
      method |-> IF ok THEN SubSeq(t, 1, i - 1) ELSE None,
      url |-> IF ok THEN SubSeq(t, i + 1, j - 1) ELSE None,
      version |-> IF ok THEN SubSeq(t, Len(t) - 2, Len(t)) ELSE None,
      status_code |-> None, reason_phrase |-> None]

\* ^<proto>/(?P<version>\d\.\d) (?P<status_code>\d{3}) (?P<reason_phrase>.*)$ ; t keeps its final line feed, which "." does not match
ResponseLineParts(t, proto) ==
  LET n == Len(proto) + 4
      body == DropFinalLF(t)
      ok == /\ Len(body) >= n + 5
            /\ IsProtoVersion(SubSeq(body, 1, n), proto)
            /\ body[n + 1] = SP
            /\ \A k \in 2..4 : IsDigit(body[n + k])
            /\ body[n + 5] = SP
            /\ \A k \in (n + 6)..Len(body) : body[k] # LF
  IN [matched |-> ok,
      method |-> None, url |-> None,
      version |-> IF ok THEN SubSeq(body, n - 2, n) ELSE None,
      status_code |-> IF ok THEN SubSeq(body, n + 2, n + 4) ELSE None,
      reason_phrase |-> IF ok THEN SubSeq(body, n + 6, Len(body)) ELSE None]

ProtoOf(kind) == IF IsHttp(kind) THEN <<"H", "T", "T", "P">> ELSE <<"R", "T", "S", "P">>

\* first_line_re.match(line) of the reader's class
first_line_re(kind, t) == IF IsResponse(kind) THEN ResponseLineParts(t, ProtoOf(kind)) ELSE RequestLineParts(DropFinalLF(t), ProtoOf(kind))

----------------------------------------------------------------------------
(* HttpLikeMessageReader and its subclasses.                               *)

\* LineReader.set_raw_mode as the reader's own methods call it: they run inside data_received (processing is set)
\* or pass raw = False, so the re-feed of line 97 is not taken; were it taken, the call would show as an exception
switch_raw_mode(s, raw) ==
  IF s.raw_mode = raw THEN s
  ELSE IF raw /\ ~s.processing /\ Len(s.buffer) > 0 THEN [s EXCEPT !.exc = "set_raw_mode re-fed the buffer from a callback"]
  ELSE [s EXCEPT !.raw_mode = raw]

\* what get_header returns for a name that is not in the header set (Python's None)
NoHeader == [name |-> None, value |-> None]

\* HttpLikeMessageReader.get_header
get_header(s, name) == IF Lower(name) \in DOMAIN s.header_fields THEN s.header_fields[Lower(name)] ELSE NoHeader

ConnectionName == <<"c", "o", "n", "n", "e", "c", "t", "i", "o", "n">>

ContentLengthName == <<"c", "o", "n", "t", "e", "n", "t", "-", "l", "e", "n", "g", "t", "h">>

TransferEncodingName == <<"t", "r", "a", "n", "s", "f", "e", "r", "-", "e", "n", "c", "o", "d", "i", "n", "g">>

Version11 == <<"1", ".", "1">>

\* HttpLikeMessageReader.is_persistent
base_is_persistent(s) == LET connection == get_header(s, ConnectionName) IN IF connection = NoHeader THEN TRUE ELSE Lower(connection.value) # <<"c", "l", "o", "s", "e">>

\* is_persistent of the reader's class (HttpMixin overrides it)
is_persistent(s) == IF IsHttp(s.kind) THEN (IF s.version = Version11 THEN base_is_persistent(s) ELSE FALSE) ELSE base_is_persistent(s)

\* is_chunked of the reader's class (HttpMixin overrides it)
is_chunked(s) == IF IsHttp(s.kind) /\ s.version = Version11 THEN (LET tencoding == get_header(s, TransferEncodingName) IN IF tencoding = NoHeader THEN FALSE ELSE Lower(tencoding.value) # <<"i", "d", "e", "n", "t", "i", "t", "y">>) ELSE FALSE

TypeErrorMsg == "'<=' not supported between instances of 'int' and 'str'"

\* has_body of the reader's class: "True", "False", or "TypeError" when the comparison of 100 with the str status_code raises
has_body(s) ==
  IF ~IsResponse(s.kind) THEN "True"
  ELSE IF s.request_queue # <<>> /\ Head(s.request_queue) = <<"H", "E", "A", "D">> THEN "False"
  ELSE IF s.status_code # None /\ s.status_code # <<>> THEN "TypeError"
  ELSE "True"

\* HttpLikeMessageReader.get_content_length: the value, none, or err for int()'s ValueError
base_get_content_length(s) == LET clength == get_header(s, ContentLengthName) IN IF clength = NoHeader THEN [err |-> FALSE, none |-> TRUE, v |-> 0] ELSE [err |-> PyInt(clength.value, 10).err, none |-> FALSE, v |-> PyInt(clength.value, 10).v]

\* get_content_length of the reader's class (the request readers turn None into 0)
get_content_length(s) == LET clength == base_get_content_length(s) IN IF IsResponse(s.kind) THEN clength ELSE [clength EXCEPT !.none = FALSE]

\* HttpLikeMessageReader.reset, lines 180-181, on the reader s after lines 172-178
reset_close(s) == IF s.exc # NoExc THEN s ELSE IF ~is_persistent(s) THEN close_connection(s) ELSE s

\* HttpLikeMessageReader.reset
base_reset(s) ==
  reset_close(switch_raw_mode([s EXCEPT !.process_line = "process_header_line", !.header_lines = 0, !.last_header_field = None,
                                        !.header_fields = EmptyFields, !.expected = 0, !.expected_none = FALSE], FALSE))

\* HttpLikeResponseReader.reset, lines 470-474, on the reader s after super().reset()
response_reset_tail(s) ==
  IF s.exc # NoExc THEN s
  ELSE [s EXCEPT !.request_queue = IF @ # <<>> THEN Tail(@) ELSE @,
                 !.version = None, !.status_code = None, !.reason_phrase = None]

\* reset of the reader's class (HttpLikeResponseReader overrides it)
reset(s) == IF IsResponse(s.kind) THEN response_reset_tail(base_reset(s)) ELSE base_reset(s)

\* HttpLikeResponseReader.push_request
push_request(s, method) == [s EXCEPT !.request_queue = Append(@, Upper(method))]

\* first_line_received running reset after a first line that matches no pattern
first_line_received_resetting(s, line) ==
  LET m == first_line_re(s.kind, Decode(line))
  IN IF m.matched
     THEN IF IsResponse(s.kind)
          THEN [s EXCEPT !.version = m.version, !.status_code = m.status_code, !.reason_phrase = m.reason_phrase]
          ELSE [s EXCEPT !.method = m.method, !.url = m.url, !.version = m.version]
     ELSE reset(parse_error(s, "invalid first line"))

\* HttpLikeMessageReader.first_line_received
first_line_received(s, line) ==
  LET m == first_line_re(s.kind, Decode(line))
  IN IF m.matched
     THEN IF IsResponse(s.kind)
          THEN [s EXCEPT !.version = m.version, !.status_code = m.status_code, !.reason_phrase = m.reason_phrase]
          ELSE [s EXCEPT !.method = m.method, !.url = m.url, !.version = m.version]
     ELSE parse_error(s, "invalid first line")

\* __header_field_received admitting one field more than max_header_fields
header_field_received_one_more(s, field) ==
  LET pos == Find(field, <<":">>, 0)
  IN IF pos >= 0
     THEN IF Cardinality(DOMAIN s.header_fields) <= s.max_header_fields
          THEN LET name == Strip(PyTo(field, pos))
                   value == Strip(PyFrom(field, pos + 1))
                   header == [name |-> name, value |-> value]
               IN [s EXCEPT !.header_fields = (Lower(name) :> header) @@ @, !.last_header_field = Lower(name)]
          ELSE parse_error(s, "max header fields exceeded")
     ELSE parse_error(s, "header field line does not contain \":\"")

\* HttpLikeMessageReader.__header_field_received
header_field_received(s, field) ==
  LET pos == Find(field, <<":">>, 0)
  IN IF pos >= 0
     THEN IF Cardinality(DOMAIN s.header_fields) < s.max_header_fields
          THEN LET name == Strip(PyTo(field, pos))
                   value == Strip(PyFrom(field, pos + 1))
                   header == [name |-> name, value |-> value]
               IN [s EXCEPT !.header_fields = (Lower(name) :> header) @@ @, !.last_header_field = Lower(name)]
          ELSE parse_error(s, "max header fields exceeded")
     ELSE parse_error(s, "header field line does not contain \":\"")

\* __header_line_received joining a continuation line to the value with a space
header_line_received_spaced(s, line) ==
  IF line[1] \in {SP, HT}
  THEN IF s.last_header_field # None
       THEN [s EXCEPT !.header_fields[s.last_header_field].value = @ \o <<SP>> \o Strip(line)]
       ELSE parse_error(s, "first header field cannot be a continuation")
  ELSE header_field_received(s, line)

\* HttpLikeMessageReader.__header_line_received
header_line_received(s, line) ==
  IF line[1] \in {SP, HT}
  THEN IF s.last_header_field # None
       THEN [s EXCEPT !.header_fields[s.last_header_field].value = @ \o Strip(line)]
       ELSE parse_error(s, "first header field cannot be a continuation")
  ELSE header_field_received(s, line)

\* HttpLikeMessageReader.__header_end_received, lines 274-283, on the reader s after header_received()
header_end_dispatch(s) ==
  IF s.exc # NoExc THEN s
  ELSE IF has_body(s) = "TypeError" THEN Raise(s, TypeErrorMsg)
  ELSE IF has_body(s) = "False" THEN reset(s)
  ELSE IF is_chunked(s) THEN [s EXCEPT !.process_line = "process_chunk_size"]
  ELSE IF get_content_length(s).err THEN parse_error(s, "unable to decode content length")
  ELSE switch_raw_mode([s EXCEPT !.expected = get_content_length(s).v, !.expected_none = get_content_length(s).none], TRUE)

\* __header_end_received without its call of header_received()
header_end_received_silent(s) == header_end_dispatch(s)

\* HttpLikeMessageReader.__header_end_received
header_end_received(s) == header_end_dispatch(header_received(s))

\* HttpLikeMessageReader.__process_header_line
process_header_line(s, line) ==
  LET s1 == [s EXCEPT !.header_lines = @ + 1]
  IN IF s1.header_lines = 1 THEN first_line_received(s1, line)
     ELSE IF Len(line) = 0 THEN header_end_received(s1)
     ELSE header_line_received(s1, line)

\* __process_chunk_size waiting for another chunk-size line after one it cannot decode
process_chunk_size_again(s, line) ==
  LET ext == Find(line, <<";">>, 0)
      size == PyInt(IF ext >= 0 THEN PyTo(line, ext) ELSE line, 16)
      s1 == IF size.err THEN parse_error(s, "unable to decode chunk size") ELSE [s EXCEPT !.expected = size.v, !.expected_none = FALSE]
  IN IF s1.exc # NoExc THEN s1
     ELSE IF ~s1.expected_none /\ s1.expected > 0 THEN switch_raw_mode(s1, TRUE)
     ELSE IF size.err THEN s1
     ELSE [s1 EXCEPT !.process_line = "process_trailer"]

\* HttpLikeMessageReader.__process_chunk_size
process_chunk_size(s, line) ==
  LET ext == Find(line, <<";">>, 0)
      size == PyInt(IF ext >= 0 THEN PyTo(line, ext) ELSE line, 16)
      s1 == IF size.err THEN parse_error(s, "unable to decode chunk size") ELSE [s EXCEPT !.expected = size.v, !.expected_none = FALSE]
  IN IF s1.exc # NoExc THEN s1
     ELSE IF ~s1.expected_none /\ s1.expected > 0 THEN switch_raw_mode(s1, TRUE)
     ELSE [s1 EXCEPT !.process_line = "process_trailer"]

\* __process_chunk_end going on to the trailer instead of the next chunk size
process_chunk_end_to_trailer(s, line) == IF Len(line) > 0 THEN parse_error(s, "non-empty line after chunk data") ELSE [s EXCEPT !.process_line = "process_trailer"]

\* HttpLikeMessageReader.__process_chunk_end
process_chunk_end(s, line) == IF Len(line) > 0 THEN parse_error(s, "non-empty line after chunk data") ELSE [s EXCEPT !.process_line = "process_chunk_size"]

\* HttpLikeMessageReader.__process_trailer
process_trailer(s, line) ==
  IF Len(line) > 0 THEN s
  ELSE LET s1 == message_end_received(s) IN IF s1.exc # NoExc THEN s1 ELSE reset(s1)

\* HttpLikeMessageReader.line_received: the call of the bound method self.__process_line
line_received(s, line) ==
  LET s1 == [s EXCEPT !.log = Append(@, Event("line_received", line, "", 0))]
  IN CASE s.process_line = "process_header_line" -> process_header_line(s1, line)
       [] s.process_line = "process_chunk_size" -> process_chunk_size(s1, line)
       [] s.process_line = "process_chunk_end" -> process_chunk_end(s1, line)
       [] s.process_line = "process_trailer" -> process_trailer(s1, line)

\* HttpLikeMessageReader.line_length_exceeded
line_length_exceeded(s) == parse_error(s, "line length exceeded")

\* HttpLikeMessageReader.raw_data_received; ret is the number of consumed bytes
raw_data_received(s, data) ==
  LET consume == IF s.expected_none \/ s.expected > Len(data) THEN Len(data) ELSE s.expected
      s1 == [s EXCEPT !.expected = IF s.expected_none THEN @ ELSE @ - consume,
                      !.log = Append(@, Event("raw_data_received", data, "", consume))]
      s2 == body_data_received(s1, PyTo(data, consume))
  IN IF s2.exc # NoExc THEN s2
     ELSE IF s2.expected_none \/ s2.expected > 0 THEN [s2 EXCEPT !.ret = Len(data)]
     ELSE LET s3 == IF is_chunked(s2)
                    THEN switch_raw_mode([s2 EXCEPT !.process_line = "process_chunk_end"], FALSE)
                    ELSE (LET s4 == message_end_received(s2) IN IF s4.exc # NoExc THEN s4 ELSE reset(s4))
          IN [s3 EXCEPT !.ret = consume]

----------------------------------------------------------------------------
(* LineReader.                                                             *)

\* The most process_data steps one data_received call is followed for
MaxSteps == 32

RECURSIVE deliver_lines(_, _)

RECURSIVE deliver_next(_)
\* LineReader.process_data, lines 75-80: the loop delivering the buffered lines while in text mode
deliver_lines(s, pos) ==
  IF s.exc # NoExc \/ s.raw_mode \/ pos < 0 THEN s
  ELSE deliver_next(line_received([s EXCEPT !.buffer = PyFrom(s.buffer, pos + Len(Delimiter))], PyTo(s.buffer, pos)))

\* LineReader.process_data, line 80: the next delimiter is searched from the start of the buffer
deliver_next(s) == deliver_lines(s, Find(s.buffer, Delimiter, 0))

\* the full buffer kept after line_length_exceeded()
overlong_line_kept(s, data) == IF s.exc # NoExc THEN s ELSE [s EXCEPT !.ret = Len(data)]

\* LineReader.process_data, lines 61-62, on the reader s after line_length_exceeded()
overlong_line(s, data) == IF s.exc # NoExc THEN s ELSE [s EXCEPT !.buffer = <<>>, !.ret = Len(data)]

\* process_data in text mode taking the whole chunk into the buffer,
\* whatever room is left
process_text_unclamped(s, data) ==
  LET start == IF Len(s.buffer) - Len(Delimiter) < 0 THEN 0 ELSE Len(s.buffer) - Len(Delimiter)
  IN IF s.buffer_limit - Len(s.buffer) <= 0
     THEN overlong_line(line_length_exceeded(s), data)
     ELSE [deliver_lines([s EXCEPT !.buffer = @ \o data], Find(s.buffer \o data, Delimiter, start)) EXCEPT !.ret = Len(data)]

\* LineReader.process_data in text mode, lines 58-82; ret is the number of processed bytes
process_text(s, data) ==
  LET room == s.buffer_limit - Len(s.buffer)
      consumed == IF room > Len(data) THEN Len(data) ELSE room
      start == IF Len(s.buffer) - Len(Delimiter) < 0 THEN 0 ELSE Len(s.buffer) - Len(Delimiter)
  IN IF room <= 0
     THEN overlong_line(line_length_exceeded(s), data)
     ELSE [deliver_lines([s EXCEPT !.buffer = @ \o PyTo(data, consumed)], Find(s.buffer \o PyTo(data, consumed), Delimiter, start)) EXCEPT !.ret = consumed]

\* LineReader.process_data
process_data(s, data) == IF s.raw_mode THEN raw_data_received(s, data) ELSE process_text(s, data)

\* the loop of data_received is where it was: from the reader s the step a
\* and then the step b were made without exception and without re-feed of
\* the buffer, the two return values add up to 0, and b is the reader s
recurred(s, a, b) ==
  /\ s.exc = NoExc /\ a.exc = NoExc /\ b.exc = NoExc
  /\ ~(a.raw_mode /\ Len(a.buffer) > 0) /\ ~(b.raw_mode /\ Len(b.buffer) > 0)
  /\ a.ret + b.ret = 0
  /\ [b EXCEPT !.log = <<>>, !.ret = 0] = [s EXCEPT !.log = <<>>, !.ret = 0]

\* the second process_data step of the loop, on the reader a the first step left
recurs_second(s, a, data, consumed) ==
  /\ consumed + a.ret < Len(data)
  /\ recurred(s, a, process_data(a, PyFrom(data, consumed + a.ret)))

\* LineReader.data_received, lines 36-42, at the reader s with consumed
\* bytes of data processed: two process_data steps later the loop is in the
\* same place, so it never ends
Recurs(s, data, consumed) ==
  /\ consumed < Len(data)
  /\ recurs_second(s, process_data(s, PyFrom(data, consumed)), data, consumed)

\* only a negative return value of raw_data_received (lines 346-365, expected < 0) takes the loop back
Spins(s, data, consumed) == s.raw_mode /\ ~s.expected_none /\ s.expected < 0 /\ Recurs(s, data, consumed)

RECURSIVE feed_loop(_, _, _, _)

RECURSIVE feed_step(_, _, _, _)
\* LineReader.data_received, lines 36-42: the while loop; a loop that never
\* ends, or is still running after MaxSteps steps, is recorded in hung
feed_loop(s, data, consumed, fuel) ==
  IF s.exc # NoExc \/ ~(consumed < Len(data)) THEN s
  ELSE IF fuel = 0 \/ Spins(s, data, consumed) THEN [s EXCEPT !.hung = TRUE]
  ELSE feed_step(process_data(s, PyFrom(data, consumed)), data, consumed, fuel)

\* the loop body of data_received dropping the buffer at the switch to raw
\* mode instead of putting it in front of the rest of the chunk
feed_step_drop(s, data, consumed, fuel) ==
  IF s.exc # NoExc THEN s
  ELSE IF s.raw_mode /\ Len(s.buffer) > 0
       THEN feed_loop([s EXCEPT !.buffer = <<>>, !.log = Append(@, Event("refeed", s.buffer, "data_received", 0))], PyFrom(data, consumed + s.ret), 0, fuel - 1)
       ELSE feed_loop(s, data, consumed + s.ret, fuel - 1)

\* LineReader.data_received, lines 37-42, on the reader s after process_data returned s.ret
feed_step(s, data, consumed, fuel) ==
  IF s.exc # NoExc THEN s
  ELSE IF s.raw_mode /\ Len(s.buffer) > 0
       THEN feed_loop([s EXCEPT !.buffer = <<>>, !.log = Append(@, Event("refeed", s.buffer, "data_received", 0))], s.buffer \o PyFrom(data, consumed + s.ret), 0, fuel - 1)
       ELSE feed_loop(s, data, consumed + s.ret, fuel - 1)

\* LineReader.data_received
base_data_received(s, data) == [feed_loop([s EXCEPT !.processing = TRUE], data, 0, MaxSteps) EXCEPT !.processing = FALSE]

\* HttpLikeMessageReader.data_received, lines 235-236, on the reader s after super().data_received(data)
catch_exception(s) == IF s.exc # NoExc THEN internal_error([s EXCEPT !.exc = NoExc], s.exc) ELSE s

\* HttpLikeMessageReader.data_received
data_received(s, data) == catch_exception(base_data_received(s, data))

\* LineReader.set_raw_mode
set_raw_mode(s, raw) ==
  IF s.raw_mode = raw THEN s
  ELSE IF raw /\ ~s.processing /\ Len(s.buffer) > 0
       THEN data_received([s EXCEPT !.raw_mode = raw, !.buffer = <<>>, !.log = Append(@, Event("refeed", s.buffer, "set_raw_mode", 0))], s.buffer)
       ELSE [s EXCEPT !.raw_mode = raw]

----------------------------------------------------------------------------
(* The inputs: byte streams a peer can send, cut into chunks at will.      *)

\* G / HTTP/1.1
RequestLine11 == <<"G", SP, "/", SP, "H", "T", "T", "P", "/", "1", ".", "1">>

\* G / HTTP/1.0
RequestLine10 == <<"G", SP, "/", SP, "H", "T", "T", "P", "/", "1", ".", "0">>

\* HTTP/1.1 200 OK
StatusLine200 == <<"H", "T", "T", "P", "/", "1", ".", "1", SP, "2", "0", "0", SP, "O", "K">>

\* HTTP/1.1 204 N
StatusLine204 == <<"H", "T", "T", "P", "/", "1", ".", "1", SP, "2", "0", "4", SP, "N">>

\* Content-Length: 2
ContentLength2 == <<"C", "o", "n", "t", "e", "n", "t", "-", "L", "e", "n", "g", "t", "h", ":", SP, "2">>

\* Content-Length: 0
ContentLength0 == <<"C", "o", "n", "t", "e", "n", "t", "-", "L", "e", "n", "g", "t", "h", ":", SP, "0">>

\* Content-Length: -1
ContentLengthNeg == <<"C", "o", "n", "t", "e", "n", "t", "-", "L", "e", "n", "g", "t", "h", ":", SP, "-", "1">>

\* Transfer-Encoding: chunked
ChunkedEncoding == <<"T", "r", "a", "n", "s", "f", "e", "r", "-", "E", "n", "c", "o", "d", "i", "n", "g", ":", SP, "c", "h", "u", "n", "k", "e", "d">>

\* Test: foo
TestFoo == <<"T", "e", "s", "t", ":", SP, "f", "o", "o">>

\*  bar (a continuation line)
FoldBar == <<SP, "b", "a", "r">>

\* a continuation line that starts with a tab and ends with a space
FoldTab == <<HT, "e", SP>>

\* test: x
TestX == <<"t", "e", "s", "t", ":", SP, "x">>

\* A: b
HeaderA == <<"A", ":", SP, "b">>

\* B: c
HeaderB == <<"B", ":", SP, "c">>

\* C: d
HeaderC == <<"C", ":", SP, "d">>

\* the payloads of the two chunks of the chunked body
ChunkPayloads == <<<<"a", "b">>, <<"c">>>>

\* 1;x (a chunk size with an extension)
ChunkSizeExt == <<"1", ";", "x">>

\* T: x (a trailer line)
TrailerLine == <<"T", ":", SP, "x">>

RECURSIVE Lines(_)
\* the given lines, each followed by CR LF
Lines(ls) == IF ls = <<>> THEN <<>> ELSE Head(ls) \o Delimiter \o Lines(Tail(ls))

\* a request with a 2-byte body framed by Content-Length, followed by an HTTP/1.0 request without body
LengthBody == <<"a", "b">>

LengthStream == Lines(<<RequestLine11, ContentLength2, <<>>>>) \o LengthBody \o Lines(<<RequestLine10, <<>>>>)

\* a request with a chunked body of two chunks and a trailer line
ChunkedStream == Lines(<<RequestLine11, ChunkedEncoding, <<>>, <<"2">>>>) \o ChunkPayloads[1] \o Lines(<<<<>>, ChunkSizeExt>>) \o ChunkPayloads[2] \o Lines(<<<<>>, <<"0">>, TrailerLine, <<>>>>)

\* a request with Content-Length: 0
ZeroLengthStream == Lines(<<RequestLine11, ContentLength0, <<>>>>)

\* two requests without Content-Length
BodilessStream == Lines(<<RequestLine11, <<>>, RequestLine11, <<>>>>)

\* a response with a 2-byte body, followed by a 204 response
ResponseStream == Lines(<<StatusLine200, ContentLength2, <<>>>>) \o LengthBody \o Lines(<<StatusLine204, <<>>>>)

\* body text
BodyText == <<"b", "o", "d", "y", SP, "t", "e", "x", "t">>

\* a chunked response: one chunk of nine bytes, the zero-size chunk, the empty line
ChunkedResponseStream == Lines(<<StatusLine200, ChunkedEncoding, <<>>, <<"9">>>>) \o BodyText \o Lines(<<<<>>, <<"0">>, <<>>>>)

\* Connection: close
ConnectionClose == <<"C", "o", "n", "n", "e", "c", "t", "i", "o", "n", ":", SP, "c", "l", "o", "s", "e">>

\* P / RTSP/1.0
RtspRequestLine == <<"P", SP, "/", SP, "R", "T", "S", "P", "/", "1", ".", "0">>

\* an HTTP/1.1 request with Connection: close and a 2-byte body
CloseStream == Lines(<<RequestLine11, ConnectionClose, ContentLength2, <<>>>>) \o LengthBody

\* an HTTP/1.0 request with a 2-byte body
Http10Stream == Lines(<<RequestLine10, ContentLength2, <<>>>>) \o LengthBody

\* an RTSP request with Connection: close and a 2-byte body
RtspCloseStream == Lines(<<RtspRequestLine, ConnectionClose, ContentLength2, <<>>>>) \o LengthBody

\* a line that is no request line, then a header block and a 2-byte body
BadRequestStream == Lines(<<<<"x">>, ContentLength2, <<>>>>) \o LengthBody

\* an empty first line, then a header block
EmptyFirstStream == Lines(<<<<>>, HeaderA, <<>>>>)

\* twenty bytes without a line delimiter
OverlongStream == <<"a", "b", "c", "d", "e", "f", "g", "h", "i", "j", "k", "l", "m", "n", "o", "p", "q", "r", "s", "t">>

\* a chunk-size line that is no hexadecimal number
BadSize == <<"z">>

\* a chunked request: a chunk of two bytes, then a chunk-size line that is no number, a trailer line and the empty line
BadChunkStream == Lines(<<RequestLine11, ChunkedEncoding, <<>>, <<"2">>>>) \o ChunkPayloads[1] \o Lines(<<<<>>, BadSize, TrailerLine, <<>>>>)

\* Content-Length: -25
ContentLengthNeg25 == <<"C", "o", "n", "t", "e", "n", "t", "-", "L", "e", "n", "g", "t", "h", ":", SP, "-", "2", "5">>

\* two requests with Content-Length -25; the last 25 bytes of each are its CR LF, its Content-Length line and its blank line
SpinStream == Lines(<<RequestLine11, ContentLengthNeg25, <<>>, RequestLine11, ContentLengthNeg25, <<>>>>)

\* a request with a negative Content-Length, followed by three bytes
NegativeStream == Lines(<<RequestLine11, ContentLengthNeg, <<>>>>) \o <<"a", "b", "c">>

\* a request with a folded header, a repeated header name and three more fields
HeadersStream == Lines(<<RequestLine11, TestFoo, FoldBar, HeaderA, TestX, HeaderB, HeaderC, FoldTab, <<>>>>)

\* max_line_length: every line of the streams fits in LimitBig, the longer header lines do not fit in LimitSmall
LimitBig == 32

LimitSmall == 16

\* max_headers: the streams have fewer than MaxHeadersBig fields, HeadersStream has more than MaxHeadersSmall
MaxHeadersBig == 8

MaxHeadersSmall == 2

\* the largest chunk fed in one call, besides the whole rest of the stream
MaxChunk == 3

\* the most requests outstanding at once
MaxQueue == 2

\* the most reset and set_raw_mode calls the application makes
MaxApiCalls == 1

Scenario(kind, max_headers, max_line_length, s) == [kind |-> kind, max_headers |-> max_headers, max_line_length |-> max_line_length, stream |-> s]

Scenarios ==
  {Scenario(HttpRequest, MaxHeadersBig, LimitBig, LengthStream),
   Scenario(HttpRequest, MaxHeadersBig, LimitSmall, LengthStream),
   Scenario(HttpRequest, MaxHeadersBig, LimitBig, ChunkedStream),
   Scenario(HttpRequest, MaxHeadersBig, LimitBig, ZeroLengthStream),
   Scenario(HttpRequest, MaxHeadersBig, LimitBig, BodilessStream),
   Scenario(HttpResponse, MaxHeadersBig, LimitBig, ResponseStream),
   Scenario(HttpResponse, MaxHeadersBig, LimitBig, ChunkedResponseStream),
   Scenario(HttpRequest, MaxHeadersBig, LimitBig, NegativeStream),
   Scenario(HttpRequest, MaxHeadersBig, LimitBig, BadChunkStream),
   Scenario(HttpRequest, MaxHeadersBig, LimitBig, SpinStream),
   Scenario(HttpRequest, MaxHeadersBig, LimitSmall, OverlongStream),
   Scenario(HttpRequest, MaxHeadersBig, LimitBig, BadRequestStream),
   Scenario(HttpResponse, MaxHeadersBig, LimitBig, BadRequestStream),
   Scenario(HttpRequest, MaxHeadersBig, LimitBig, EmptyFirstStream),
   Scenario(HttpRequest, MaxHeadersBig, LimitBig, CloseStream),
   Scenario(HttpRequest, MaxHeadersBig, LimitBig, Http10Stream),
   Scenario(RtspRequest, MaxHeadersBig, LimitBig, RtspCloseStream),
   Scenario(HttpRequest, MaxHeadersSmall, LimitBig, HeadersStream),
   Scenario(HttpRequest, MaxHeadersBig, LimitBig, HeadersStream)}

\* a request with a 2-byte body framed by Content-Length, followed by a line that is no request line
ShortStream == Lines(<<RequestLine11, ContentLength2, <<>>>>) \o LengthBody \o Lines(<<<<"x">>>>)

ApiScenarios ==
  {Scenario(HttpRequest, MaxHeadersBig, LimitBig, ShortStream),
   Scenario(HttpRequest, MaxHeadersBig, LimitSmall, ShortStream),
   Scenario(HttpRequest, MaxHeadersBig, LimitSmall, BodilessStream)}

Methods == {<<"G", "E", "T">>, <<"h", "e", "a", "d">>}

----------------------------------------------------------------------------
(* The state machine: an application that owns one reader.                 *)

\* the history entry of a call the application makes
Called(s, api, data, n) == [s EXCEPT !.log = Append(@, Event(api, data, "call", n))]

InitWith(scenarios) ==
  \E sc \in scenarios :
    /\ p = NewReader(sc.kind, sc.max_headers, sc.max_line_length)
    /\ stream = sc.stream
    /\ nfed = 0
    /\ napi = 0

Init == InitWith(Scenarios)

InitApi == InitWith(ApiScenarios)

\* the transport delivers the next n bytes of the stream: data_received
DataReceived(n) ==
  /\ ~p.hung
  /\ n \in (0..Min(MaxChunk, Len(stream) - nfed)) \cup {Len(stream) - nfed}
  /\ p' = data_received(p, SubSeq(stream, nfed + 1, nfed + n))
  /\ nfed' = nfed + n
  /\ UNCHANGED <<stream, napi>>

\* the application announces a request it has sent: push_request (response readers only)
PushRequest(method) ==
  /\ ~p.hung
  /\ IsResponse(p.kind)
  /\ Len(p.request_queue) < MaxQueue
  /\ p' = push_request(Called(p, "push_request", Upper(method), 0), method)
  /\ UNCHANGED <<stream, nfed, napi>>

\* the application calls reset
Reset ==
  /\ ~p.hung
  /\ napi < MaxApiCalls
  /\ p' = reset(Called(p, "reset", <<>>, 0))
  /\ napi' = napi + 1
  /\ UNCHANGED <<stream, nfed>>

\* the application calls set_raw_mode
SetRawMode(raw) ==
  /\ ~p.hung
  /\ napi < MaxApiCalls
  /\ p' = set_raw_mode(Called(p, "set_raw_mode", <<>>, IF raw THEN 1 ELSE 0), raw)
  /\ napi' = napi + 1
  /\ UNCHANGED <<stream, nfed>>

Feed == \E n \in 0..Len(stream) : DataReceived(n)

Push == \E method \in Methods : PushRequest(method)

SwitchMode == \E raw \in BOOLEAN : SetRawMode(raw)

Next == Feed \/ Push

NextApi == Feed \/ Reset \/ SwitchMode

\* the application only feeds bytes and announces requests
Spec == Init /\ [][Next]_vars

\* the application also calls reset and set_raw_mode at will
SpecApi == InitApi /\ [][NextApi]_vars

(***************************************************************************)
(* Reading the history                                                     *)
(***************************************************************************)
IsHeader(e) == e.cb = "header_received"
IsBody(e) == e.cb = "body_data_received"
IsEnd(e) == e.cb = "message_end_received"
IsLine(e) == e.cb = "line_received"
IsRaw(e) == e.cb = "raw_data_received"
IsRefeed(e) == e.cb = "refeed"
IsConsumer(e) == e.cb \in {"header_received", "body_data_received", "message_end_received",
                           "parse_error", "internal_error", "close_connection"}
\* the callbacks the consumer saw, in order
Consumer(log) == SelectSeq(log, IsConsumer)
\* the bytes fed so far
Fed == SubSeq(stream, 1, nfed)

RECURSIVE Ordered(_, _)
\* body data and message ends only fall between a header_received and the
\* message end that follows it; open says a header is waiting for its end
Ordered(log, open) ==
  IF log = <<>> THEN TRUE
  ELSE IF IsHeader(Head(log)) THEN Ordered(Tail(log), TRUE)
  ELSE IF IsBody(Head(log)) THEN open /\ Ordered(Tail(log), TRUE)
  ELSE IF IsEnd(Head(log)) THEN open /\ Ordered(Tail(log), FALSE)
  ELSE Ordered(Tail(log), open)

(***************************************************************************)
(* C1                                                                      *)
(***************************************************************************)
\* C1: whatever the slicing of the stream, the consumer sees header_received
\* first, then the body_data_received calls of the message, then its
\* message_end_received: no body data and no message end arrives outside a
\* message opened by header_received.
C1_CallbackOrder == Ordered(p.log, FALSE)

\* a message was delivered whole: header, a non-empty body fragment, end
C1_Witness ==
  \E i, j, k \in 1..Len(p.log) :
    /\ i < j /\ j < k
    /\ IsHeader(p.log[i]) /\ IsBody(p.log[j]) /\ p.log[j].data # <<>> /\ IsEnd(p.log[k])

(***************************************************************************)
(* C2                                                                      *)
(***************************************************************************)
RECURSIVE Accounted(_)
\* the bytes the history accounts for: each delivered line with the
\* delimiter that ended it, and each body_data_received argument
Accounted(log) ==
  IF log = <<>> THEN <<>>
  ELSE IF IsLine(Head(log)) THEN Head(log).data \o Delimiter \o Accounted(Tail(log))
  ELSE IF IsBody(Head(log)) THEN Head(log).data \o Accounted(Tail(log))
  ELSE Accounted(Tail(log))

\* the framer reported an overlong line, whose bytes it drops
Overlong(log) == \E i \in 1..Len(log) : log[i].cb = "parse_error" /\ log[i].msg = "line length exceeded"

\* C2: every byte fed is accounted for exactly once and in order: the
\* delivered lines with their delimiters and the body_data_received
\* arguments, followed by the buffer, are the bytes fed so far (runs that
\* dropped an overlong line set aside).
C2_ByteConservation == ~Overlong(p.log) => Accounted(p.log) \o p.buffer = Fed

\* the same, for messages whose Content-Length is not negative and readers
\* that raise no exception
C2_ConservationElsewhere ==
  (stream \notin {NegativeStream, SpinStream} /\ ~IsResponse(p.kind)) => C2_ByteConservation

(***************************************************************************)
(* C3                                                                      *)
(***************************************************************************)
IsPrefix(a, b) == Len(a) <= Len(b) /\ SubSeq(b, 1, Len(a)) = a

RECURSIVE Consumed(_)
\* the number of stream bytes the framer has handed on for good: each
\* delivered line with its delimiter, and what each raw_data_received took
Consumed(log) ==
  IF log = <<>> THEN 0
  ELSE IF IsLine(Head(log)) THEN Len(Head(log).data) + Len(Delimiter) + Consumed(Tail(log))
  ELSE IF IsRaw(Head(log)) THEN Head(log).n + Consumed(Tail(log))
  ELSE Consumed(Tail(log))

\* the i-th entry of the history is a raw_data_received whose argument is
\* the stream from the first byte not yet handed on
RawInOrder(log, i) ==
  log[i].data = SubSeq(stream, Consumed(SubSeq(log, 1, i - 1)) + 1,
                       Consumed(SubSeq(log, 1, i - 1)) + Len(log[i].data))

\* C3: bytes buffered at a switch from text to raw mode are handed to
\* raw_data_received at once, in front of everything else, and the buffer is
\* emptied: every hand-over of the buffer (by set_raw_mode(True) called
\* between feeds, or by the loop of data_received after a callback switched
\* the mode) is followed directly by a raw_data_received call whose argument
\* starts with the buffered bytes; unless an overlong line was dropped
\* before, the argument of every raw_data_received call is the stream from
\* the first byte not yet handed on; and in raw mode the buffer is empty.
C3_RawHandover ==
  /\ p.raw_mode => p.buffer = <<>>
  /\ \A i \in 1..Len(p.log) :
       /\ IsRefeed(p.log[i]) =>
            /\ i < Len(p.log)
            /\ IsRaw(p.log[i + 1])
            /\ IsPrefix(p.log[i].data, p.log[i + 1].data)
       /\ (IsRaw(p.log[i]) /\ ~Overlong(SubSeq(p.log, 1, i))) => RawInOrder(p.log, i)

\* the buffer was handed over both ways in one run: by set_raw_mode(True)
\* between feeds and by the loop of data_received, the latter with bytes of
\* the same chunk behind the buffered ones
C3_Witness ==
  /\ \E i \in 1..Len(p.log) : IsRefeed(p.log[i]) /\ p.log[i].msg = "set_raw_mode" /\ p.log[i].data # <<>>
  /\ \E i \in 1..(Len(p.log) - 1) :
       /\ IsRefeed(p.log[i]) /\ p.log[i].msg = "data_received"
       /\ Len(p.log[i + 1].data) > Len(p.log[i].data)

(***************************************************************************)
(* C4                                                                      *)
(***************************************************************************)
RECURSIVE Coalesce(_)
\* the callbacks with neighbouring body_data_received calls joined into one
Coalesce(log) ==
  IF Len(log) < 2 THEN log
  ELSE IF IsBody(log[1]) /\ IsBody(log[2])
       THEN Coalesce(<<[log[1] EXCEPT !.data = @ \o log[2].data]>> \o SubSeq(log, 3, Len(log)))
       ELSE <<log[1]>> \o Coalesce(Tail(log))

\* no push_request, reset or set_raw_mode call was made by the application
OnlyFed(log) == \A i \in 1..Len(log) : log[i].msg # "call"

\* a reader like p that is given the whole stream in one data_received call
OneShot == data_received(NewReader(p.kind, p.max_header_fields, p.buffer_limit), stream)

\* what a consumer can tell of a run: the callbacks it saw, body data
\* joined, and the attributes of the start line
Observed(s) == <<Coalesce(Consumer(s.log)), s.version, s.method, s.url, s.status_code, s.reason_phrase>>

\* C4: once the whole stream has been fed, the consumer has seen the same
\* callbacks with the same arguments (the body data joined) and the same
\* start-line attributes as a reader that was given the stream in one slice.
C4_SlicingIndependence ==
  (nfed = Len(stream) /\ OnlyFed(p.log)) => Observed(p) = Observed(OneShot)

\* the same, for request readers on streams in which every line fits the
\* limit and no Content-Length is negative
C4_IndependenceElsewhere ==
  (stream \notin {NegativeStream, SpinStream} /\ ~IsResponse(p.kind) /\ ~Overlong(p.log) /\ ~Overlong(OneShot.log))
    => C4_SlicingIndependence

(***************************************************************************)
(* C5                                                                      *)
(***************************************************************************)
\* C5: after any sequence of data_received, set_raw_mode and reset calls the
\* buffer of the framer holds at most buffer_limit bytes.
C5_BufferBounded == Len(p.buffer) <= p.buffer_limit

\* the buffer is full, in a run in which the application called reset or
\* set_raw_mode
C5_Witness == Len(p.buffer) = p.buffer_limit /\ ~OnlyFed(p.log)

(***************************************************************************)
(* C6                                                                      *)
(***************************************************************************)
\* header field lines offered to a reader whose header set is full: one
\* whose name is in the set already and one whose name is new
ProbeFields == {TestX, HeaderC}

\* the reader s turned the field line down: a parse_error was raised and
\* the header set is as it was
Rejected(s, field) ==
  /\ header_field_received(s, field).header_fields = s.header_fields
  /\ Len(header_field_received(s, field).log) = Len(s.log) + 1
  /\ header_field_received(s, field).log[Len(s.log) + 1].cb = "parse_error"

\* C6: the header set never holds more than max_header_fields entries, and
\* a reader whose set holds that many turns down every further header field
\* line with a parse_error, leaving the set unchanged, also when the name of
\* the field is in the set already.
C6_HeaderSetBounded ==
  /\ Cardinality(DOMAIN p.header_fields) <= p.max_header_fields
  /\ Cardinality(DOMAIN p.header_fields) = p.max_header_fields
       => \A field \in ProbeFields : Rejected(p, field)

\* the header set is full, a field line was turned down, and the field
\* named by that line (test) still has the value it had before
C6_Witness ==
  /\ Cardinality(DOMAIN p.header_fields) = p.max_header_fields
  /\ \E i \in 1..Len(p.log) : p.log[i].cb = "parse_error" /\ p.log[i].msg = "max header fields exceeded"
  /\ Lower(<<"T", "e", "s", "t">>) \in DOMAIN p.header_fields
  /\ p.header_fields[Lower(<<"T", "e", "s", "t">>)].value # <<"x">>
  /\ nfed = Len(stream)

(***************************************************************************)
(* C7                                                                      *)
(***************************************************************************)
RECURSIVE BodyOf(_)
\* the body_data_received arguments up to the first message end, joined
BodyOf(log) ==
  IF log = <<>> \/ IsEnd(Head(log)) THEN <<>>
  ELSE IF IsBody(Head(log)) THEN Head(log).data \o BodyOf(Tail(log))
  ELSE BodyOf(Tail(log))

Ends(log) == Len(SelectSeq(log, IsEnd))
Lines_(log) == SelectSeq(log, IsLine)

\* the stream starts with a message framed by Content-Length: 2 whose lines
\* fit the limit of the reader, and no HEAD request is pending on it
FramedByLength ==
  /\ stream \in {LengthStream, ResponseStream}
  /\ p.buffer_limit = LimitBig
  /\ \A i \in 1..Len(p.log) : p.log[i].cb = "push_request" => p.log[i].data # <<"H", "E", "A", "D">>

\* the number of bytes of the stream up to the blank line ending the first header block
BodyStart == Find(stream, Delimiter \o Delimiter, 0) + 2 * Len(Delimiter)

\* C7: for a message framed by Content-Length: N, N >= 1, under any slicing
\* no message_end_received fires before the N-th body byte has been fed;
\* once it has been fed the body_data_received arguments of the message
\* are together the N bytes after the blank line and message_end_received
\* has fired exactly once; and when the stream has been fed whole, the
\* bytes behind the body have been parsed as the lines of the next message.
C7_ContentLengthBody ==
  FramedByLength =>
    /\ nfed < BodyStart + Len(LengthBody) => Ends(p.log) = 0
    /\ nfed >= BodyStart + Len(LengthBody) =>
         /\ Ends(p.log) = 1
         /\ BodyOf(p.log) = SubSeq(stream, BodyStart + 1, BodyStart + Len(LengthBody))
    /\ nfed = Len(stream) =>
         /\ Len(Lines_(p.log)) = 5
         /\ Lines_(p.log)[4].data \in {RequestLine10, StatusLine204}
         /\ p.buffer = <<>>

\* the same, for request readers only
C7_RequestBody == ~IsResponse(p.kind) => C7_ContentLengthBody

(***************************************************************************)
(* C8                                                                      *)
(***************************************************************************)
RECURSIVE AllBody(_)
\* all body_data_received arguments, joined
AllBody(log) ==
  IF log = <<>> THEN <<>>
  ELSE IF IsBody(Head(log)) THEN Head(log).data \o AllBody(Tail(log))
  ELSE AllBody(Tail(log))

Part(bytes, line, raw) == [len |-> Len(bytes), line |-> line, raw |-> raw]

\* the parts of ChunkedStream with the line handler and the mode the
\* parser is to be in while the part is being fed
ChunkedPlan ==
  << Part(Lines(<<RequestLine11, ChunkedEncoding, <<>>>>), "process_header_line", FALSE),
     Part(Lines(<<<<"2">>>>), "process_chunk_size", FALSE),
     Part(ChunkPayloads[1], "process_chunk_size", TRUE),
     Part(Delimiter, "process_chunk_end", FALSE),
     Part(Lines(<<ChunkSizeExt>>), "process_chunk_size", FALSE),
     Part(ChunkPayloads[2], "process_chunk_size", TRUE),
     Part(Delimiter, "process_chunk_end", FALSE),
     Part(Lines(<<<<"0">>>>), "process_chunk_size", FALSE),
     Part(Lines(<<TrailerLine, <<>>>>), "process_trailer", FALSE) >>

RECURSIVE PhaseAt(_, _)
\* the part of the plan the byte after the first n falls in, with the
\* number of its bytes still to come; behind the last part the parser
\* waits for the next start line
PhaseAt(plan, n) ==
  IF plan = <<>> THEN [line |-> "process_header_line", raw |-> FALSE, left |-> 0]
  ELSE IF n < Head(plan).len THEN [line |-> Head(plan).line, raw |-> Head(plan).raw, left |-> Head(plan).len - n]
  ELSE PhaseAt(Tail(plan), n - Head(plan).len)

\* C8: for a well-formed chunked HTTP/1.1 request (two chunks, the second
\* with a chunk extension, a zero-size chunk, a trailer line, an empty line)
\* under any slicing: the parser reads a chunk size in text mode, then
\* exactly that many bytes in raw mode, then the line end after the chunk in
\* text mode, then the next chunk size; the body_data_received arguments are
\* together the chunk payloads in order; the trailer line changes nothing;
\* and message_end_received fires exactly once, at the empty line behind
\* the zero-size chunk.
C8_ChunkedBody ==
  (stream = ChunkedStream /\ p.kind = HttpRequest) =>
    /\ p.process_line = PhaseAt(ChunkedPlan, nfed).line
    /\ p.raw_mode = PhaseAt(ChunkedPlan, nfed).raw
    /\ p.raw_mode => (~p.expected_none /\ p.expected = PhaseAt(ChunkedPlan, nfed).left)
    /\ IsPrefix(AllBody(p.log), ChunkPayloads[1] \o ChunkPayloads[2])
    /\ nfed < Len(stream) =>
         /\ Ends(p.log) = 0
         /\ \A i \in 1..Len(Consumer(p.log)) : IsHeader(Consumer(p.log)[i]) \/ IsBody(Consumer(p.log)[i])
         /\ DOMAIN p.header_fields \subseteq {Lower(TransferEncodingName)}
    /\ nfed = Len(stream) =>
         /\ Len(Coalesce(Consumer(p.log))) = 3
         /\ IsHeader(Coalesce(Consumer(p.log))[1])
         /\ IsBody(Coalesce(Consumer(p.log))[2])
         /\ Coalesce(Consumer(p.log))[2].data = ChunkPayloads[1] \o ChunkPayloads[2]
         /\ IsEnd(Coalesce(Consumer(p.log))[3])
         /\ p.buffer = <<>>

\* the chunked request has been fed whole, in slices that cut the first
\* chunk payload in two, and its end was reported
C8_Witness ==
  /\ stream = ChunkedStream /\ nfed = Len(stream)
  /\ Ends(p.log) = 1
  /\ \E i \in 1..Len(p.log) : IsBody(p.log[i]) /\ p.log[i].data = <<"a">>

(***************************************************************************)
(* C9                                                                      *)
(***************************************************************************)
\* C9: a request with Content-Length: 0, or with neither Content-Length
\* nor chunked encoding, is reported whole as soon as the blank line ending
\* its header block has been fed: the first two callbacks the consumer sees
\* are header_received and message_end_received, with no
\* body_data_received between them.
C9_EmptyBody ==
  (stream \in {ZeroLengthStream, BodilessStream} /\ ~IsResponse(p.kind) /\ nfed >= BodyStart) =>
    /\ Len(Consumer(p.log)) >= 2
    /\ IsHeader(Consumer(p.log)[1])
    /\ IsEnd(Consumer(p.log)[2])

(***************************************************************************)
(* C10                                                                     *)
(***************************************************************************)
\* a HEAD request was announced before anything else happened, so that
\* HEAD is the oldest pending request when the first header block ends
HeadPending == Len(p.log) > 0 /\ p.log[1].cb = "push_request" /\ p.log[1].data = <<"H", "E", "A", "D">>

\* C10: a response to a pending HEAD request ends with its header block,
\* whatever its Content-Length: once the blank line has been fed the first
\* two callbacks the consumer sees are header_received and
\* message_end_received, and when the stream has been fed whole the bytes
\* behind the blank line have been read as the first line of the next
\* message.
C10_NoBody ==
  (stream = ResponseStream /\ IsResponse(p.kind) /\ HeadPending /\ nfed >= BodyStart) =>
    /\ Len(Consumer(p.log)) >= 2
    /\ IsHeader(Consumer(p.log)[1])
    /\ IsEnd(Consumer(p.log)[2])
    /\ nfed = Len(stream) =>
         /\ Len(Lines_(p.log)) >= 4
         /\ Lines_(p.log)[4].data = LengthBody \o StatusLine204

(***************************************************************************)
(* C11                                                                     *)
(***************************************************************************)
IsCall(e) == IsConsumer(e) /\ ~(IsBody(e) /\ e.data = <<>>)

RECURSIVE Names(_)
\* the names of the callbacks of a history, in order
Names(log) == IF log = <<>> THEN <<>> ELSE <<Head(log).cb>> \o Names(Tail(log))

\* the names of the callbacks the consumer saw, body_data_received calls
\* with an empty argument left out
Seen(log) == Names(SelectSeq(log, IsCall))

\* C11: when two bodiless HTTP/1.1 requests have been fed to a request
\* reader, in one slice or in any slicing, the consumer has seen
\* header_received and message_end_received of the first request and then
\* header_received and message_end_received of the second.
C11_Pipelined ==
  (stream = BodilessStream /\ p.kind = HttpRequest /\ nfed = Len(stream)) =>
    Seen(p.log) = <<"header_received", "message_end_received", "header_received", "message_end_received">>

(***************************************************************************)
(* C12                                                                     *)
(***************************************************************************)
IsInternalError(e) == e.cb = "internal_error"

\* the application announced one request, a GET, before it fed anything,
\* and made no other call
GetPending ==
  /\ Len(p.log) > 0 /\ p.log[1].cb = "push_request" /\ p.log[1].data = <<"G", "E", "T">>
  /\ \A i \in 2..Len(p.log) : p.log[i].msg # "call"

\* C12: on the HTTP response reader, after push_request("GET"), a chunked
\* 'HTTP/1.1 200 OK' response (one chunk of nine bytes, the zero-size chunk,
\* the empty line) gives status 200 while its body is read and, once it has
\* been fed whole: no internal_error, body_data_received arguments that are
\* together the chunk payload, exactly one message_end_received, and an
\* empty queue of pending requests.
C12_ChunkedResponse ==
  (stream = ChunkedResponseStream /\ p.kind = HttpResponse /\ GetPending) =>
    /\ SelectSeq(p.log, IsInternalError) = <<>>
    /\ (nfed >= BodyStart /\ nfed < Len(stream)) => p.status_code = <<"2", "0", "0">>
    /\ nfed = Len(stream) =>
         /\ AllBody(p.log) = BodyText
         /\ Ends(p.log) = 1
         /\ p.request_queue = <<>>

(***************************************************************************)
(* C13                                                                     *)
(***************************************************************************)
\* the status code of the response being read, as a number
StatusNumber(s) == PyInt(s.status_code, 10).v

\* what has_body is to return for the response being read
ClaimedHasBody(s) ==
  IF s.request_queue # <<>> /\ Head(s.request_queue) = <<"H", "E", "A", "D">> THEN "False"
  ELSE IF 100 <= StatusNumber(s) /\ StatusNumber(s) < 200 THEN "False"
  ELSE IF StatusNumber(s) \in {204, 304} THEN "False"
  ELSE "True"

\* C13: for a response whose status line matched, whatever the queue of
\* pending requests, has_body() returns without raising: false if the
\* oldest pending request is HEAD, false for a status code from 100 to 199,
\* false for 204 and 304, and true otherwise.
C13_HasBody == (IsResponse(p.kind) /\ p.status_code # None) => has_body(p) = ClaimedHasBody(p)

(***************************************************************************)
(* C14                                                                     *)
(***************************************************************************)
IsClose(e) == e.cb = "close_connection"
Closes(log) == Len(SelectSeq(log, IsClose))

\* every message_end_received of the history is followed at once by a
\* close_connection
ClosedAtEnd(log) ==
  \A i \in 1..Len(log) : IsEnd(log[i]) => (i < Len(log) /\ IsClose(log[i + 1]))

\* C14: close_connection is called exactly once at the end of every message
\* that is not persistent, after the state of the message has been reset:
\* at the end of an HTTP/1.1 or RTSP request with 'Connection: close' and of
\* an HTTP/1.0 request, and never for HTTP/1.1 requests without
\* 'Connection: close'.
C14_CloseConnection ==
  /\ stream \in {CloseStream, Http10Stream, RtspCloseStream} =>
       /\ Closes(p.log) = Ends(p.log)
       /\ ClosedAtEnd(Consumer(p.log))
       /\ nfed = Len(stream) => Ends(p.log) = 1
  /\ (Closes(p.log) > 0 /\ IsClose(p.log[Len(p.log)])) =>
       (DOMAIN p.header_fields = {} /\ ~p.raw_mode /\ p.process_line = "process_header_line")
  /\ (stream \in {ChunkedStream, BodilessStream} /\ p.kind = HttpRequest) => Closes(p.log) = 0

\* the same without the HTTP/1.1 and RTSP requests that carry 'Connection: close'
C14_CloseElsewhere == stream \notin {CloseStream, RtspCloseStream} => C14_CloseConnection

(***************************************************************************)
(* C15                                                                     *)
(***************************************************************************)
IsInvalidFirstLine(e) == e.cb = "parse_error" /\ e.msg = "invalid first line"
IsMessageCallback(e) == IsHeader(e) \/ IsBody(e) \/ IsEnd(e)
IsResetCall(e) == e.cb = "reset" /\ e.msg = "call"

\* C15: after parse_error("invalid first line") the consumer gets no
\* header_received, body_data_received or message_end_received until the
\* application calls reset(): between the error and any such callback that
\* follows it there is a reset() call.
C15_StopAfterInvalid ==
  \A i, j \in 1..Len(p.log) :
    (i < j /\ IsInvalidFirstLine(p.log[i]) /\ IsMessageCallback(p.log[j]))
      => \E k \in (i + 1)..(j - 1) : IsResetCall(p.log[k])

\* every first line that matches no start-line pattern is reported: the
\* first lines of BadRequestStream and EmptyFirstStream give
\* parse_error("invalid first line") as soon as they have been fed
C15_InvalidReported ==
  (stream \in {BadRequestStream, EmptyFirstStream} /\ Len(Lines_(p.log)) >= 1) =>
    \E i \in 1..Len(p.log) : IsInvalidFirstLine(p.log[i]) /\ i > 1 /\ IsLine(p.log[i - 1])

(***************************************************************************)
(* C16                                                                     *)
(***************************************************************************)
\* no delivered line holds a line delimiter
WholeLines(log) == \A i \in 1..Len(log) : IsLine(log[i]) => Find(log[i].data, Delimiter, 0) < 0

\* one more byte, fed after the bytes fed so far
ProbeByte == <<"x">>

\* C16: data_received hands no exception on to its caller and leaves the
\* reader in a consistent state, also when an exception was raised while
\* the chunk was processed: the exception has become an internal_error
\* call, the processing flag is cleared, the buffer is within its limit,
\* and the bytes left in the buffer are still read as lines by the next
\* feed, none of the lines delivered then holding a line delimiter.
C16_ExceptionContained ==
  /\ p.exc = NoExc
  /\ ~p.processing
  /\ Len(p.buffer) <= p.buffer_limit
  /\ data_received(p, ProbeByte).exc = NoExc
  /\ WholeLines(data_received(p, ProbeByte).log)

\* the same, for the runs in which no exception was raised
C16_ConsistentElsewhere == SelectSeq(p.log, IsInternalError) = <<>> => C16_ExceptionContained

(***************************************************************************)
(* C17                                                                     *)
(***************************************************************************)
IsOverlong(e) == e.cb = "parse_error" /\ e.msg = "line length exceeded"

\* chunks offered to a reader whose buffer is full
ProbeChunks == {<<"x">>, <<"x", CR, LF, "y">>}

\* the step of the framer on a full buffer: one parse_error("line length
\* exceeded") and nothing else is reported, the buffer is emptied, and the
\* whole chunk counts as processed
Discards(s, data) ==
  /\ process_data(s, data).log = Append(s.log, Event("parse_error", <<>>, "line length exceeded", 0))
  /\ process_data(s, data).buffer = <<>>
  /\ process_data(s, data).ret = Len(data)

\* C17: a processing step in text mode that starts with a full buffer
\* reports the overlong line exactly once, empties the buffer and discards
\* the whole chunk it was given; so a stream of more than max_line_length
\* bytes without CR LF gives no error up to max_line_length bytes and that
\* one parse error behind them, and fed in one call it leaves the buffer
\* empty.
C17_LineTooLong ==
  /\ (~p.raw_mode /\ Len(p.buffer) >= p.buffer_limit) => \A data \in ProbeChunks : Discards(p, data)
  /\ stream = OverlongStream =>
       /\ nfed <= p.buffer_limit => (SelectSeq(p.log, IsOverlong) = <<>> /\ p.buffer = Fed)
       /\ nfed > p.buffer_limit =>
            /\ Len(SelectSeq(p.log, IsOverlong)) = 1
            /\ Len(p.log) = 1
            /\ p.buffer = SubSeq(stream, nfed - Len(p.buffer) + 1, nfed)
       /\ OneShot.log = <<Event("parse_error", <<>>, "line length exceeded", 0)>>
       /\ OneShot.buffer = <<>>

\* the stream without CR LF has been fed whole, the overlong line was
\* reported and the buffer is empty
C17_Witness ==
  /\ stream = OverlongStream /\ nfed = Len(stream)
  /\ Len(SelectSeq(p.log, IsOverlong)) = 1
  /\ p.buffer = <<>>

(***************************************************************************)
(* C18                                                                     *)
(***************************************************************************)
\* the reader s holds nothing of a previous message
Fresh(s) ==
  /\ DOMAIN s.header_fields = {}
  /\ s.last_header_field = None
  /\ s.expected = 0 /\ ~s.expected_none
  /\ s.process_line = "process_header_line" /\ s.header_lines = 0
  /\ ~s.raw_mode
  /\ s.version = None
  /\ IF IsResponse(s.kind) THEN s.status_code = None /\ s.reason_phrase = None
                           ELSE s.method = None /\ s.url = None

\* the last thing that happened is the end of a message
JustEnded(log) ==
  /\ Len(log) > 0
  /\ \/ IsEnd(log[Len(log)])
     \/ (IsClose(log[Len(log)]) /\ Len(log) > 1 /\ IsEnd(log[Len(log) - 1]))

\* C18: after every reset the state of the message is fresh, for every
\* kind of reader: a reset() called now leaves an empty header set, no
\* continuation cursor, expected = 0, the start-line state, text mode and
\* no start-line attribute of the previous message; and so does the reset
\* the parser made itself at the end of a message.
C18_ResetFresh ==
  /\ Fresh(reset(p))
  /\ JustEnded(p.log) => Fresh(p)

\* the same, for response readers only
C18_ResponseFresh == IsResponse(p.kind) => C18_ResetFresh

(***************************************************************************)
(* C19                                                                     *)
(***************************************************************************)
Field(name, value) == [name |-> name, value |-> value]

\* the header set HeadersStream is to give once k of its lines have been read
HeadersAfter(k) ==
  IF k < 2 THEN EmptyFields
  ELSE IF k = 2 THEN (<<"t", "e", "s", "t">> :> Field(<<"T", "e", "s", "t">>, <<"f", "o", "o">>))
  ELSE IF k = 3 THEN (<<"t", "e", "s", "t">> :> Field(<<"T", "e", "s", "t">>, <<"f", "o", "o", "b", "a", "r">>))
  ELSE IF k = 4 THEN (<<"t", "e", "s", "t">> :> Field(<<"T", "e", "s", "t">>, <<"f", "o", "o", "b", "a", "r">>))
                     @@ (<<"a">> :> Field(<<"A">>, <<"b">>))
  ELSE (<<"t", "e", "s", "t">> :> Field(<<"t", "e", "s", "t">>, <<"x">>))
       @@ (<<"a">> :> Field(<<"A">>, <<"b">>))
       @@ (IF k >= 6 THEN (<<"b">> :> Field(<<"B">>, <<"c">>)) ELSE EmptyFields)
       @@ (IF k = 7 THEN (<<"c">> :> Field(<<"C">>, <<"d">>)) ELSE EmptyFields)
       @@ (IF k >= 8 THEN (<<"c">> :> Field(<<"C">>, <<"d", "e">>)) ELSE EmptyFields)

\* C19: the header set holds one entry per case-folded header name, the
\* last field line of a name winning; a continuation line (first byte SP or
\* HT) adds no entry and appends its stripped content, without separator,
\* to the value of the field added last ('Test: foo' and ' bar' give
\* 'foobar'); and get_header finds a field under any casing of its name.
C19_HeaderSet ==
  /\ \A name \in DOMAIN p.header_fields :
       /\ Lower(name) = name
       /\ Lower(p.header_fields[name].name) = name
       /\ get_header(p, Upper(name)) = p.header_fields[name]
       /\ get_header(p, p.header_fields[name].name) = p.header_fields[name]
  /\ (stream = HeadersStream /\ p.max_header_fields = MaxHeadersBig) =>
       p.header_fields = HeadersAfter(Len(Lines_(p.log)))

\* the header block of HeadersStream has been read whole by a reader that
\* takes all its fields: four entries for five field lines
C19_Witness ==
  /\ stream = HeadersStream /\ p.max_header_fields = MaxHeadersBig /\ nfed = Len(stream)
  /\ IsHeader(p.log[Len(p.log)])
  /\ Cardinality(DOMAIN p.header_fields) = 4

(***************************************************************************)
(* C20                                                                     *)
(***************************************************************************)

IsPush(e) == e.cb = "push_request" /\ e.msg = "call"

\* the number of push_request calls of a history
Pushes(log) == Len(SelectSeq(log, IsPush))

RECURSIVE QueueAfter(_, _)
\* the pending-request queue q after a history in which every reset is
\* followed by close_connection: a push_request call appends its method,
\* a reset pops the head of a queue that is not empty
QueueAfter(log, q) ==
  IF log = <<>> THEN q
  ELSE QueueAfter(Tail(log),
                  IF IsPush(Head(log)) THEN Append(q, Head(log).data)
                  ELSE IF IsClose(Head(log)) /\ q # <<>> THEN Tail(q)
                  ELSE q)

\* a line that is no status line
BadStatusLine == <<"x">>

\* C20: on a response reader a start line that fails to parse is reported
\* by parse_error("invalid first line") and nothing else: no reset runs and
\* the pending-request queue is left as it is.  The message that starts
\* with the invalid line is read on, and the reset at its end (after the
\* header block under a pending HEAD, after the body otherwise) pops the
\* head of the queue: in the history of BadRequestStream, where no version
\* is parsed and every reset therefore calls close_connection, the queue is
\* the pushed methods less one head per close_connection, and no
\* close_connection follows the parse error at once.
C20_InvalidStatusLine ==
  IsResponse(p.kind) =>
    /\ first_line_received(p, BadStatusLine).request_queue = p.request_queue
    /\ first_line_received(p, BadStatusLine).log =
         Append(p.log, Event("parse_error", <<>>, "invalid first line", 0))
    /\ stream = BadRequestStream =>
         /\ p.request_queue = QueueAfter(p.log, <<>>)
         /\ \A i \in 1..(Len(p.log) - 1) : IsInvalidFirstLine(p.log[i]) => ~IsClose(p.log[i + 1])

\* two requests were pending when the invalid status line was reported, the
\* message behind it has been read to its end, and one request is left
C20_Witness ==
  /\ IsResponse(p.kind) /\ stream = BadRequestStream /\ nfed = Len(stream)
  /\ Pushes(p.log) = 2 /\ IsPush(p.log[1]) /\ IsPush(p.log[2])
  /\ \E i \in 1..Len(p.log) : IsInvalidFirstLine(p.log[i])
  /\ IsClose(p.log[Len(p.log)])
  /\ Len(p.request_queue) = 1

\* the statement that the head of the queue is popped when the status line
\* fails to parse: once parse_error("invalid first line") is the last event
\* of a history with a push_request, fewer requests are pending than were
\* pushed
C20_PoppedOnError ==
  (IsResponse(p.kind) /\ Len(p.log) > 0 /\ IsInvalidFirstLine(p.log[Len(p.log)]) /\ Pushes(p.log) > 0)
    => Len(p.request_queue) < Pushes(p.log)

(***************************************************************************)
(* C21                                                                     *)
(***************************************************************************)

\* C21: every data_received call returns: no call is in a feed loop that
\* never ends, or still in its loop after MaxSteps process_data steps.
C21_Terminates == ~p.hung

\* a reader recorded as hung was stopped in a feed loop that never ends:
\* for some tail of the bytes fed and some value of consumed the loop recurs
C21_HungSpins ==
  p.hung => \E k \in 1..nfed : \E c \in (0 - nfed)..nfed :
              Recurs([p EXCEPT !.hung = FALSE, !.processing = TRUE], SubSeq(stream, k, nfed), c)

\* on every other stream of the scenarios each data_received call returns,
\* the ones with Content-Length 0 and -1, chunk size 0 and re-feeds included
C21_TerminatesElsewhere == stream # SpinStream => ~p.hung

(***************************************************************************)
(* C22                                                                     *)
(***************************************************************************)

\* chunk-size lines int(line, 16) cannot decode: a letter that is no
\* hexadecimal digit, the empty line, a bare sign, a bad number before an
\* extension
BadSizes == {BadSize, <<>>, <<"-">>, <<"g", ";", "1">>}

ZeroSize == <<"0">>

IsBadSize(e) == e.cb = "parse_error" /\ e.msg = "unable to decode chunk size"

\* what HttpLikeMessageReader.reset leaves: the reader waits in text mode
\* for a start line, with an empty header set and nothing expected
AtStart(s) ==
  /\ s.process_line = "process_header_line" /\ s.header_lines = 0
  /\ DOMAIN s.header_fields = {} /\ s.last_header_field = None
  /\ s.expected = 0 /\ ~s.expected_none /\ ~s.raw_mode

\* the history of t from the entry after the history of s on
Since(s, t) == SubSeq(t.log, Len(s.log) + 1, Len(t.log))

\* C22: when the reader waits in text mode for a chunk-size line, the
\* expected count is 0, and a chunk-size line that is no hexadecimal number is answered by
\* parse_error("unable to decode chunk size") alone: no switch to raw mode,
\* no body data, and the reader goes on to the trailer.  The next empty
\* line then gives message_end_received and the reset, and leaves the
\* reader as the same empty line after a zero-size chunk does.
C22_BadChunkSize ==
  (p.process_line = "process_chunk_size" /\ ~p.raw_mode /\ ~p.hung) =>
    /\ p.expected = 0 /\ ~p.expected_none
    /\ \A bad \in BadSizes :
         /\ Since(p, line_received(p, bad)) =
              <<Event("line_received", bad, "", 0), Event("parse_error", <<>>, "unable to decode chunk size", 0)>>
         /\ ~line_received(p, bad).raw_mode
         /\ line_received(p, bad).process_line = "process_trailer"
         /\ line_received(p, bad).expected = 0
         /\ Since(line_received(p, bad), line_received(line_received(p, bad), <<>>))
              = Since(line_received(p, ZeroSize), line_received(line_received(p, ZeroSize), <<>>))
         /\ LET ended == Since(line_received(p, bad), line_received(line_received(p, bad), <<>>))
            IN Len(ended) >= 2 /\ IsLine(ended[1]) /\ IsEnd(ended[2])
         /\ AtStart(line_received(line_received(p, bad), <<>>))
         /\ [line_received(line_received(p, bad), <<>>) EXCEPT !.log = <<>>]
              = [line_received(line_received(p, ZeroSize), <<>>) EXCEPT !.log = <<>>]

\* BadChunkStream has been fed whole: the bad chunk-size line was reported,
\* the consumer saw the header, the first chunk, the error and the message
\* end, and the reader is reset
C22_Witness ==
  /\ stream = BadChunkStream /\ nfed = Len(stream)
  /\ Seen(p.log) = <<"header_received", "body_data_received", "parse_error", "message_end_received">>
  /\ \E i \in 1..Len(p.log) : IsBadSize(p.log[i])
  /\ AtStart(p)
====
